---- MODULE Spec2Model ----
(***************************************************************************)
(* media_archiver: the delayed-task scheduler (scheduler.py), the event    *)
(* router and full scan (main.py) and the handlers (handlers.py), over a   *)
(* small file system.  Strings are sequences of one-character strings, so  *)
(* that os.path.commonprefix, basename, startswith, the filename patterns  *)
(* and the bucket format act on characters as they do in the source.       *)
(***************************************************************************)
EXTENDS Integers, Sequences, FiniteSets, TLC

\* ---------------------------------------------------------------- bounds

\* The clock stops advancing at MaxTime (seconds since start).
MaxTime == 140
\* Changes an outside actor makes to the watched trees (a file dropped in, a
\* file deleted).
MaxOutside == 2

\* ------------------------------------------------------ program constants

SCHEDULER_TICK_TIME == 5
DIR_RUN_DELAY == 60

\* ------------------------------------------------------------- evaluation

\* F applied to the value of v, with v evaluated once.
Bind(v, F(_)) == CHOOSE y \in {F(x) : x \in {v}} : TRUE

\* ---------------------------------------------------------------- strings

Digit == {"0", "1", "2", "3", "4", "5", "6", "7", "8", "9"}

DigitVal(c) ==
    CASE c = "0" -> 0 [] c = "1" -> 1 [] c = "2" -> 2 [] c = "3" -> 3
      [] c = "4" -> 4 [] c = "5" -> 5 [] c = "6" -> 6 [] c = "7" -> 7
      [] c = "8" -> 8 [] c = "9" -> 9

DigitChar(n) == <<"0", "1", "2", "3", "4", "5", "6", "7", "8", "9">>[n + 1]

\* int(s[from..to]) for a run of decimal digits of s.
RECURSIVE ParseInt(_, _, _)
ParseInt(s, from, to) ==
    IF to < from THEN 0
    ELSE 10 * ParseInt(s, from, to - 1) + DigitVal(s[to])

\* str(n) for n >= 0.
RECURSIVE IntToStr(_)
IntToStr(n) ==
    IF n < 10 THEN <<DigitChar(n)>>
    ELSE Append(IntToStr(n \div 10), DigitChar(n % 10))

\* "{:0>w}".format(n): right-aligned, filled with "0" up to width w.
RECURSIVE ZeroFill(_, _)
ZeroFill(s, w) == IF Len(s) >= w THEN s ELSE ZeroFill(<<"0">> \o s, w)

\* str.startswith
StartsWith(s, pre) ==
    /\ Len(pre) <= Len(s)
    /\ SubSeq(s, 1, Len(pre)) = pre

\* Position of the last "/" of p, 0 when there is none.
LastSlash(p) ==
    LET at == {i \in 1..Len(p) : p[i] = "/"}
    IN  IF at = {} THEN 0 ELSE CHOOSE i \in at : \A j \in at : j <= i

\* os.path.basename
basename(p) == SubSeq(p, LastSlash(p) + 1, Len(p))

\* os.path.dirname
dirname(p) ==
    LET i == LastSlash(p)
    IN  IF i <= 1 THEN SubSeq(p, 1, i) ELSE SubSeq(p, 1, i - 1)

\* os.path.join(a, b)
join(a, b) ==
    IF b # <<>> /\ b[1] = "/" THEN b
    ELSE IF a = <<>> \/ a[Len(a)] = "/" THEN a \o b
    ELSE a \o <<"/">> \o b

\* os.path.commonprefix((a, b)): the longest common leading run of characters.
commonprefix(a, b) ==
    LET n == IF Len(a) <= Len(b) THEN Len(a) ELSE Len(b)
        same == {k \in 0..n : \A i \in 1..k : a[i] = b[i]}
        k == CHOOSE x \in same : \A y \in same : y <= x
    IN  SubSeq(a, 1, k)

\* ------------------------------------------------------------------ dates

\* A datetime.datetime value, or one of the two other outcomes of resolving
\* one: None, or an exception.
DateTime(y, m, d, hh, mm, ss) ==
    [tag |-> "date", year |-> y, month |-> m, day |-> d,
     hour |-> hh, minute |-> mm, second |-> ss]
Date(y, m, d) == DateTime(y, m, d, 0, 0, 0)
NoDate == [DateTime(0, 0, 0, 0, 0, 0) EXCEPT !.tag = "none"]
Raised == [DateTime(0, 0, 0, 0, 0, 0) EXCEPT !.tag = "raise"]

IsLeap(y) == (y % 4 = 0 /\ y % 100 # 0) \/ y % 400 = 0

DaysInMonth(y, m) ==
    IF m = 2 THEN (IF IsLeap(y) THEN 29 ELSE 28)
    ELSE IF m \in {4, 6, 9, 11} THEN 30 ELSE 31

\* datetime.datetime(year=y, month=m, day=d): ValueError outside the calendar.
datetime(y, m, d) ==
    IF /\ y >= 1 /\ y <= 9999
       /\ m >= 1 /\ m <= 12
       /\ d >= 1 /\ d <= DaysInMonth(y, m)
    THEN Date(y, m, d)
    ELSE Raised

\* Whether the characters of s from position from to position to are digits.
AllDigits(s, from, to) == \A i \in from..to : s[i] \in Digit

\* datetime.datetime.strptime(dt, "%Y<sep>%m<sep>%d %H:%M:%S") for a string
\* with two-digit fields: ValueError when dt is not of that form or names no
\* moment of the calendar.
strptime(dt, sep) ==
    IF /\ Len(dt) = 19
       /\ AllDigits(dt, 1, 4) /\ dt[5] = sep
       /\ AllDigits(dt, 6, 7) /\ dt[8] = sep
       /\ AllDigits(dt, 9, 10) /\ dt[11] = " "
       /\ AllDigits(dt, 12, 13) /\ dt[14] = ":"
       /\ AllDigits(dt, 15, 16) /\ dt[17] = ":"
       /\ AllDigits(dt, 18, 19)
    THEN Bind(datetime(ParseInt(dt, 1, 4), ParseInt(dt, 6, 7), ParseInt(dt, 9, 10)),
              LAMBDA day :
                Bind(<<ParseInt(dt, 12, 13), ParseInt(dt, 15, 16), ParseInt(dt, 18, 19)>>,
                     LAMBDA time :
                        IF day.tag = "date" /\ time[1] <= 23 /\ time[2] <= 59 /\ time[3] <= 61
                        THEN DateTime(day.year, day.month, day.day, time[1], time[2], time[3])
                        ELSE Raised))
    ELSE Raised

\* --------------------------------------------------- filename date patterns

\* A regular expression is a sequence of tokens: "DIGIT" is [0-9], "ANY" is an
\* unescaped ".", "DIGITS" is \d+, "END" is $, any other token is that literal
\* character.  Every extractor is  pre (?P<year>[0-9]{4})(?P<month>[0-9]{2})
\* (?P<day>[0-9]{2}) post.
Rep(tok, n) == [i \in 1..n |-> tok]

DateGroups == Rep("DIGIT", 8)

Extractor(pre, post) == [pre |-> pre, post |-> post]

Regex(ex) == ex.pre \o DateGroups \o ex.post

FILENAME_DATE_REGEX ==
    << Extractor(<<"I", "M", "G", "-">>,
                 <<"-", "W", "A">> \o Rep("DIGIT", 4) \o <<"ANY", "j", "p", "e", "g", "END">>),
       Extractor(<<"I", "M", "G", "-">>,
                 <<"-", "W", "A">> \o Rep("DIGIT", 4) \o <<"ANY", "j", "p", "g", "END">>),
       Extractor(<<"I", "M", "G", "_">>,
                 <<"_">> \o Rep("DIGIT", 6) \o <<"ANY", "j", "p", "g", "END">>),
       Extractor(<<"I", "M", "G", "_">>,
                 <<"_">> \o Rep("DIGIT", 6) \o <<"~", "DIGITS", "ANY", "j", "p", "g", "END">>),
       Extractor(<<>>,
                 <<"_">> \o Rep("DIGIT", 6) \o <<"ANY", "j", "p", "g", "END">>),
       Extractor(<<>>,
                 <<"_">> \o Rep("DIGIT", 6) \o <<"(", "DIGITS", ")", "ANY", "j", "p", "g", "END">>),
       Extractor(<<>>,
                 <<"_">> \o Rep("DIGIT", 6) \o <<"_">> \o Rep("DIGIT", 3) \o <<"ANY", "j", "p", "g", "END">>),
       Extractor(<<"S", "c", "r", "e", "e", "n", "s", "h", "o", "t", "_">>,
                 <<"-">> \o Rep("DIGIT", 6) \o <<"ANY", "p", "n", "g">>),
       Extractor(<<>>,
                 <<"_">> \o Rep("DIGIT", 6) \o <<"ANY", "m", "p", "4", "END">>),
       Extractor(<<>>,
                 <<"_">> \o Rep("DIGIT", 6) \o <<"_", "DIGITS", "ANY", "m", "p", "4", "END">>),
       Extractor(<<>>,
                 <<"_">> \o Rep("DIGIT", 6) \o <<"(", "DIGITS", ")", "ANY", "m", "p", "4", "END">>),
       Extractor(<<"V", "I", "D", "-">>,
                 <<"-", "W", "A">> \o Rep("DIGIT", 4) \o <<"ANY", "m", "p", "4", "END">>) >>

\* Whether the tokens of toks from the k-th on match s from position i on.
RECURSIVE MatchFrom(_, _, _, _)
MatchFrom(toks, k, s, i) ==
    IF k > Len(toks) THEN TRUE
    ELSE CASE toks[k] = "END" -> i = Len(s) + 1 /\ MatchFrom(toks, k + 1, s, i)
           [] toks[k] = "DIGIT" ->
                i <= Len(s) /\ s[i] \in Digit /\ MatchFrom(toks, k + 1, s, i + 1)
           [] toks[k] = "ANY" -> i <= Len(s) /\ MatchFrom(toks, k + 1, s, i + 1)
           [] toks[k] = "DIGITS" ->
                \E n \in 1..(Len(s) - i + 1) :
                    /\ \A j \in i..(i + n - 1) : s[j] \in Digit
                    /\ MatchFrom(toks, k + 1, s, i + n)
           [] OTHER -> i <= Len(s) /\ s[i] = toks[k] /\ MatchFrom(toks, k + 1, s, i + 1)

\* RegexDateExtractor.match: re.match, anchored at the start of the name.
match(ex, file_name) ==
    \E toks \in {Regex(ex)} : MatchFrom(toks, 1, file_name, 1)

\* RegexDateExtractor.get_datetime: re.search, the leftmost match anywhere.
get_datetime(ex, file_name) ==
    Bind(Regex(ex), LAMBDA toks :
        Bind({i \in 1..(Len(file_name) + 1) : MatchFrom(toks, 1, file_name, i)},
             LAMBDA starts :
                IF starts = {} THEN NoDate
                ELSE Bind((CHOOSE x \in starts : \A y \in starts : x <= y) + Len(ex.pre),
                          LAMBDA g : datetime(ParseInt(file_name, g, g + 3),
                                              ParseInt(file_name, g + 4, g + 5),
                                              ParseInt(file_name, g + 6, g + 7)))))

\* datetime_from_filename: the first extractor that matches decides.
datetime_from_filename(file_name) ==
    Bind(file_name, LAMBDA name :
        Bind({k \in 1..Len(FILENAME_DATE_REGEX) : match(FILENAME_DATE_REGEX[k], name)},
             LAMBDA hits :
                IF hits = {} THEN NoDate
                ELSE get_datetime(FILENAME_DATE_REGEX[CHOOSE k \in hits : \A j \in hits : k <= j],
                                  name)))

\* OUT_DIR_FORMAT.format(year, month): "{0:0>4}-{1:0>2}"
OUT_DIR_FORMAT(year, month) ==
    ZeroFill(IntToStr(year), 4) \o <<"-">> \o ZeroFill(IntToStr(month), 2)

\* ------------------------------------------------------------ file system

\* The file system is a function from the paths that exist to their nodes.
\* types is what fleep reports for the first 128 bytes (info.type), exif the
\* string PIL gives for the DateTimeOriginal tag (NoExif when the file has no
\* readable metadata or no such tag), data the content.
NoExif == <<>>

DirNode ==
    [kind |-> "dir", types |-> <<>>, mtime |-> NoDate, exif |-> NoExif, data |-> 0]

FileNode(types, mtime, exif, data) ==
    [kind |-> "file", types |-> types, mtime |-> mtime, exif |-> exif, data |-> data]

exists(fs, p) == p \in DOMAIN fs
isdir(fs, p) == p \in DOMAIN fs /\ fs[p].kind = "dir"
isfile(fs, p) == p \in DOMAIN fs /\ fs[p].kind = "file"

\* os.listdir, as full paths.
listdir(fs, d) == {q \in DOMAIN fs : q # d /\ dirname(q) = d}

\* The file system without p and everything below it.
DelTree(fs, p) == [q \in {x \in DOMAIN fs : ~(x = p \/ StartsWith(x, p \o <<"/">>))} |-> fs[q]]

Put(fs, p, node) == [q \in (DOMAIN fs) \cup {p} |-> IF q = p THEN node ELSE fs[q]]
Del(fs, p) == [q \in (DOMAIN fs) \ {p} |-> fs[q]]

\* Whether p lies in the tree rooted at the directory d (d itself included).
Within(d, p) == p = d \/ StartsWith(p, IF d[Len(d)] = "/" THEN d ELSE d \o <<"/">>)

\* The ancestors of p, nearest first, and p itself before them.
RECURSIVE Lineage(_)
Lineage(p) ==
    IF p = <<>> \/ p = <<"/">> THEN <<>>
    ELSE Bind(dirname(p), LAMBDA d : <<p>> \o Lineage(d))

\* os.makedirs(p): p and every missing ancestor become directories.
makedirs(fs, p) ==
    Bind(Lineage(p), LAMBDA line :
        Bind({q \in {line[i] : i \in 1..Len(line)} : ~exists(fs, q)},
             LAMBDA new : [q \in (DOMAIN fs) \cup new |->
                              IF q \in new THEN DirNode ELSE fs[q]]))

\* Whether os.makedirs(p) succeeds: FileExistsError when p or an ancestor
\* exists and is no directory.
CanMakedirs(fs, p) ==
    \E line \in {Lineage(p)} :
        \A i \in 1..Len(line) : exists(fs, line[i]) => isdir(fs, line[i])

\* The order in which a directory scan lists a set of paths: any fixed one.
RECURSIVE Listing(_)
Listing(S) ==
    IF S = {} THEN <<>>
    ELSE Bind(CHOOSE x \in S : TRUE, LAMBDA p :
            Bind(S \ {p}, LAMBDA rest : <<p>> \o Listing(rest)))

\* The directories and the other entries of top, as os.walk yields them.
WalkDirs(fs, top) == Listing({q \in listdir(fs, top) : isdir(fs, q)})
WalkFiles(fs, top) == Listing({q \in listdir(fs, top) : ~isdir(fs, q)})

\* ---------------------------------------------------------------- handlers

\* The result of a job: how it ended ("done" is True, "retry" is False,
\* "raise" an exception leaving it) and the file system it leaves.
Result(outcome, fs) == [outcome |-> outcome, fs |-> fs]

IsHidden(path) == StartsWith(basename(path), <<".">>)

\* Directory.can_handle without the test for a hidden name.
Directory_can_handle_Hidden(fs, path) == isdir(fs, path)

\* Directory.can_handle
Directory_can_handle(fs, path) ==
    IF IsHidden(path) THEN FALSE ELSE isdir(fs, path)

\* Image.can_handle
Image_can_handle(fs, path) ==
    IF ~isfile(fs, path) THEN FALSE
    ELSE IF IsHidden(path) THEN FALSE
    ELSE IF Len(fs[path].types) = 0 THEN FALSE
    ELSE fs[path].types[1] \in {"raster-image", "raw-image"}

\* Video.can_handle
Video_can_handle(fs, path) ==
    IF ~isfile(fs, path) THEN FALSE
    ELSE IF IsHidden(path) THEN FALSE
    ELSE IF Len(fs[path].types) = 0 THEN FALSE
    ELSE fs[path].types[1] \in {"video"}

\* Audio.can_handle
Audio_can_handle(fs, path) ==
    IF ~isfile(fs, path) THEN FALSE
    ELSE IF IsHidden(path) THEN FALSE
    ELSE IF Len(fs[path].types) = 0 THEN FALSE
    ELSE fs[path].types[1] \in {"audio"}

\* handler_factory: the first of Image, Video, Audio, Directory that can
\* handle f, or "None".
handler_factory(fs, f) ==
    IF Image_can_handle(fs, f) THEN "Image"
    ELSE IF Video_can_handle(fs, f) THEN "Video"
    ELSE IF Audio_can_handle(fs, f) THEN "Audio"
    ELSE IF Directory_can_handle(fs, f) THEN "Directory"
    ELSE "None"

\* Handler.delay as the constructors set it.
HandlerDelay(handler) == IF handler = "Directory" THEN DIR_RUN_DELAY ELSE 0

\* The value '0000:00:00 00:00:00' that _exif_datetime takes for no date.
ZeroStamp ==
    <<"0", "0", "0", "0", ":", "0", "0", ":", "0", "0", " ",
      "0", "0", ":", "0", "0", ":", "0", "0">>

\* Image._exif_datetime: None without a usable tag, else the string parsed
\* with ":" between the date fields and, when that fails, with "-"; the
\* ValueError of the second attempt leaves the method.
exif_datetime(node) ==
    Bind(node.exif, LAMBDA dt :
        IF dt = NoExif \/ dt = ZeroStamp THEN NoDate
        ELSE Bind(strptime(dt, ":"), LAMBDA first :
                IF first.tag = "date" THEN first ELSE strptime(dt, "-")))

\* Image.get_date asking the file name before the metadata.
Image_get_date_NameFirst(fs, path) ==
    LET exif_created_date == exif_datetime(fs[path])
        file_name_datetime == datetime_from_filename(basename(path))
    IN  IF file_name_datetime.tag # "none" THEN file_name_datetime
        ELSE IF exif_created_date.tag # "none" THEN exif_created_date
        ELSE fs[path].mtime

\* Image.get_date
Image_get_date(fs, path) ==
    LET exif_created_date == exif_datetime(fs[path])
        file_name_datetime == datetime_from_filename(basename(path))
    IN  IF exif_created_date.tag # "none" THEN exif_created_date
        ELSE IF file_name_datetime.tag # "none" THEN file_name_datetime
        ELSE fs[path].mtime

\* Video.get_date and Audio.get_date
Video_get_date(fs, path) ==
    LET file_name_datetime == datetime_from_filename(basename(path))
    IN  IF file_name_datetime.tag # "none" THEN file_name_datetime
        ELSE fs[path].mtime

get_date(handler, fs, path) ==
    IF handler = "Image" THEN Image_get_date(fs, path) ELSE Video_get_date(fs, path)

\* Handler._get_outdir: the bucket of a date, created when missing.
OutDirOf(out_dir, date_time) == join(out_dir, OUT_DIR_FORMAT(date_time.year, date_time.month))

\* move copying whatever the policy.
move_AlwaysCopy(fs, src, dst, delete, io_fails) ==
    Bind(IF isdir(fs, dst) THEN join(dst, basename(src)) ELSE dst, LAMBDA real_dst :
        IF io_fails THEN Result("raise", fs)
        ELSE IF isdir(fs, real_dst) THEN Result("raise", fs)
        ELSE Result("done", Put(fs, real_dst, fs[src])))

\* move(src, dst, delete): shutil.move or shutil.copy2; io_fails is an I/O
\* failure of the underlying call.
move(fs, src, dst, delete, io_fails) ==
    Bind(IF isdir(fs, dst) THEN join(dst, basename(src)) ELSE dst, LAMBDA real_dst :
        IF io_fails THEN Result("raise", fs)
        ELSE IF delete
        THEN IF isdir(fs, dst) /\ exists(fs, real_dst) THEN Result("raise", fs)
             ELSE Result("done", Put(Del(fs, src), real_dst, fs[src]))
        ELSE IF isdir(fs, real_dst) THEN Result("raise", fs)
             ELSE Result("done", Put(fs, real_dst, fs[src])))

\* run without the test for a file of the same name in the bucket.
Media_run_NoCollisionCheck(handler, fs, path, out_dir, delete, io_fails) ==
    Bind(get_date(handler, fs, path), LAMBDA date_time :
        IF date_time.tag = "raise" THEN Result("raise", fs)
        ELSE Bind(OutDirOf(out_dir, date_time), LAMBDA out :
            IF ~CanMakedirs(fs, out) THEN Result("raise", fs)
            ELSE Bind(makedirs(fs, out), LAMBDA fs1 :
                    move(fs1, path, join(out, basename(path)), delete, io_fails))))

\* Image.run, Video.run, Audio.run
Media_run(handler, fs, path, out_dir, delete, io_fails) ==
    Bind(get_date(handler, fs, path), LAMBDA date_time :
        IF date_time.tag = "raise" THEN Result("raise", fs)
        ELSE Bind(OutDirOf(out_dir, date_time), LAMBDA out :
            IF ~exists(fs, out) \/ ~isdir(fs, out)
            THEN IF ~CanMakedirs(fs, out) THEN Result("raise", fs)
                 ELSE Bind(makedirs(fs, out), LAMBDA fs1 :
                        Bind(join(out, basename(path)), LAMBDA out_path :
                            IF isfile(fs1, out_path) THEN Result("done", fs1)
                            ELSE move(fs1, path, out_path, delete, io_fails)))
            ELSE Bind(join(out, basename(path)), LAMBDA out_path :
                    IF isfile(fs, out_path) THEN Result("done", fs)
                    ELSE move(fs, path, out_path, delete, io_fails))))

\* Directory.run.recursive_rm_dirs: os.walk(path) lists a directory when it
\* reaches it; at each directory it yields, the loop body first reaps every
\* listed subdirectory and then removes the directory if it is empty.
RECURSIVE recursive_rm_dirs(_, _)
RECURSIVE WalkRm(_, _)
RECURSIVE ReapEach(_, _, _)
RECURSIVE DescendEach(_, _, _)
recursive_rm_dirs(fs, path) ==
    IF ~exists(fs, path) THEN fs ELSE WalkRm(fs, path)

\* The loop of recursive_rm_dirs removing each directory it visits without
\* asking whether it is empty.
WalkRm_NoEmptyTest(fs, top) ==
    IF ~isdir(fs, top) THEN fs
    ELSE Bind(WalkDirs(fs, top), LAMBDA dirs :
            Bind(ReapEach(fs, dirs, 1), LAMBDA fs1 :
                Bind(Del(fs1, top), LAMBDA fs2 : DescendEach(fs2, dirs, 1))))

WalkRm(fs, top) ==
    IF ~isdir(fs, top) THEN fs
    ELSE Bind(WalkDirs(fs, top), LAMBDA dirs :
            Bind(ReapEach(fs, dirs, 1), LAMBDA fs1 :
                Bind(IF listdir(fs1, top) = {} THEN Del(fs1, top) ELSE fs1, LAMBDA fs2 :
                    DescendEach(fs2, dirs, 1))))

\* for d in dirs: recursive_rm_dirs(os.path.join(root, d)), from the i-th on.
ReapEach(fs, dirs, i) ==
    IF i > Len(dirs) THEN fs
    ELSE Bind(recursive_rm_dirs(fs, dirs[i]), LAMBDA fs1 : ReapEach(fs1, dirs, i + 1))

\* os.walk going down into each listed directory, from the i-th on.
DescendEach(fs, dirs, i) ==
    IF i > Len(dirs) THEN fs
    ELSE Bind(WalkRm(fs, dirs[i]), LAMBDA fs1 : DescendEach(fs1, dirs, i + 1))

\* Directory.run reporting done whether or not the directory is left.
Directory_run_NeverRetry(fs, path, delete) ==
    IF ~delete THEN Result("done", fs)
    ELSE IF ~exists(fs, path) THEN Result("done", fs)
    ELSE Result("done", recursive_rm_dirs(fs, path))

\* Directory.run
Directory_run(fs, path, delete) ==
    IF ~delete THEN Result("done", fs)
    ELSE IF ~exists(fs, path) THEN Result("done", fs)
    ELSE Bind(recursive_rm_dirs(fs, path), LAMBDA fs1 :
            IF exists(fs1, path) THEN Result("retry", fs1) ELSE Result("done", fs1))

\* ------------------------------------------------------------ event router

\* for d in dirs: if os.path.commonprefix((d, file_path)) == d
AnyContains(dirs, file_path) ==
    \E i \in 1..Len(dirs) : commonprefix(dirs[i], file_path) = dirs[i]

\* should_delete: True for a managed root, False for a passive one or none.
should_delete(managed, passive, file_path) ==
    IF AnyContains(managed, file_path) THEN TRUE
    ELSE IF AnyContains(passive, file_path) THEN FALSE
    ELSE FALSE

\* run_entry: the scheduled job.  vanishes: an outside actor removes the path
\* after a can_handle of handler_factory accepted it and before the handler's
\* constructor reads its modification time (os.path.getmtime raises).
run_entry(fs, managed, passive, file_path, out_dir, io_fails, vanishes) ==
    Bind(should_delete(managed, passive, file_path), LAMBDA delete :
        Bind(handler_factory(fs, file_path), LAMBDA handler :
            IF handler = "None" THEN Result("done", fs)
            ELSE IF vanishes THEN Result("raise", DelTree(fs, file_path))
            ELSE IF handler = "Directory" THEN Directory_run(fs, file_path, delete)
            ELSE Media_run(handler, fs, file_path, out_dir, delete, io_fails)))

\* walk_dir: the paths it passes to schedule_entry, in order.  os.walk(dir)
\* yields dir and then every directory below it; for each yielded directory
\* the body schedules each subdirectory and calls walk_dir on it, then
\* schedules each file.
RECURSIVE walk_dir(_, _)
RECURSIVE os_walk(_, _)
RECURSIVE WalkEach(_, _, _)
RECURSIVE BodyDirs(_, _, _)
RECURSIVE BodyEach(_, _, _)
\* os.walk(top): the directories it yields, top first.
os_walk(fs, top) ==
    IF ~isdir(fs, top) THEN <<>>
    ELSE Bind(WalkDirs(fs, top), LAMBDA dirs : <<top>> \o WalkEach(fs, dirs, 1))

WalkEach(fs, dirs, i) ==
    IF i > Len(dirs) THEN <<>>
    ELSE os_walk(fs, dirs[i]) \o WalkEach(fs, dirs, i + 1)

\* for d in dirs: schedule_entry(curr_dir); walk_dir(curr_dir)
BodyDirs(fs, dirs, i) ==
    IF i > Len(dirs) THEN <<>>
    ELSE <<dirs[i]>> \o walk_dir(fs, dirs[i]) \o BodyDirs(fs, dirs, i + 1)

\* The loop body of walk_dir at each directory os.walk yields.
BodyEach(fs, roots, i) ==
    IF i > Len(roots) THEN <<>>
    ELSE Bind(WalkDirs(fs, roots[i]), LAMBDA dirs :
            BodyDirs(fs, dirs, 1) \o WalkFiles(fs, roots[i]) \o BodyEach(fs, roots, i + 1))

walk_dir(fs, dir) == Bind(os_walk(fs, dir), LAMBDA roots : BodyEach(fs, roots, 1))

\* full_scan: walk_dir over the passive roots, then the managed ones.
RECURSIVE ScanRoots(_, _, _)
ScanRoots(fs, roots, i) ==
    IF i > Len(roots) THEN <<>>
    ELSE walk_dir(fs, roots[i]) \o ScanRoots(fs, roots, i + 1)

full_scan(fs, managed, passive) ==
    Bind(passive \o managed, LAMBDA roots : ScanRoots(fs, roots, 1))

\* ------------------------------------------------------------------- state

VARIABLES
    fs,                  \* the file system
    MANAGED_WATCH_DIRS,  \* main.py globals, set once by main()
    PASSIVE_WATCH_DIRS,
    OUT_DIR,
    now,                 \* time.time(), in seconds
    tasks,               \* Scheduler._tasks
    lock,                \* Scheduler._lock: "free", or the thread holding it
    mainpc,              \* where the main thread is
    idx,                 \* position of the iteration "for t in self._tasks"
    events,              \* notifications not yet delivered to process_default
    npc,                 \* where the notification thread is
    nreq,                \* the submission the notification thread is making
    outside,             \* changes made by an outside actor so far
    last,                \* the latest job invocation of the current tick and what it did
    tick,                \* the tasks due when the current tick began, and the jobs it ran
    scan                 \* what the full scan submitted, and the tree it saw

vars == <<fs, MANAGED_WATCH_DIRS, PASSIVE_WATCH_DIRS, OUT_DIR, now, tasks, lock,
          mainpc, idx, events, npc, nreq, outside, last, tick, scan>>

\* ---------------------------------------------------------------- scenario

M == <<"/", "m">>
MP == <<"/", "m", "p">>
P == <<"/", "p">>
O == <<"/", "o">>
SubDir == <<"/", "m", "/", "d">>

VidOk == <<"V", "I", "D", "-", "2", "0", "1", "6", "0", "4", "2", "8", "-",
           "W", "A", "0", "0", "0", "1", ".", "m", "p", "4">>
VidBad == <<"V", "I", "D", "-", "2", "0", "1", "6", "0", "2", "3", "0", "-",
            "W", "A", "0", "0", "0", "1", ".", "m", "p", "4">>
HiddenName == <<".", "h">>

Video(data) == FileNode(<<"video">>, Date(2019, 1, 5), NoExif, data)

Roots == (M :> DirNode) @@ (MP :> DirNode) @@ (P :> DirNode) @@ (O :> DirNode)

\* A managed subdirectory holding one video.
TreeNested == Roots @@ (SubDir :> DirNode) @@ (join(SubDir, VidOk) :> Video(1))

\* A managed video whose name is already taken in its bucket.
TreeTaken ==
    Roots @@ (join(M, VidOk) :> Video(1))
          @@ (join(O, OUT_DIR_FORMAT(2016, 4)) :> DirNode)
          @@ (join(join(O, OUT_DIR_FORMAT(2016, 4)), VidOk) :> Video(2))

\* A video in each of the two directories that may be configured as passive,
\* and a hidden directory.
TreePassive ==
    Roots @@ (join(P, VidOk) :> Video(1)) @@ (join(MP, VidOk) :> Video(1))
          @@ (join(P, HiddenName) :> DirNode)

Scenario(managed, passive, tree) == [managed |-> managed, passive |-> passive, tree |-> tree]

Scenarios ==
    { Scenario(<<M>>, <<P>>, TreeNested),
      Scenario(<<M>>, <<P>>, TreeTaken),
      Scenario(<<M>>, <<P>>, TreePassive),
      Scenario(<<M>>, <<MP>>, TreePassive) }

\* ------------------------------------------------------------ single jobs

\* The cases the main thread is run on alone, without notifications and
\* without an outside actor: one media file of each strategy, name, metadata
\* string and policy; roots nested in one another; trees of directories.
ImgName == <<"I", "M", "G", "_", "2", "0", "2", "0", "0", "4", "0", "1", "_",
             "1", "7", "0", "7", "1", "9", ".", "j", "p", "g">>
PlainName == <<"a", ".", "j", "p", "g">>

ExifColon == <<"2", "0", "1", "8", ":", "0", "7", ":", "0", "1", " ",
               "1", "7", ":", "3", "3", ":", "3", "1">>
ExifHyphen == <<"2", "0", "1", "8", "-", "0", "7", "-", "0", "1", " ",
                "1", "7", ":", "3", "3", ":", "3", "1">>
ExifSlash == <<"2", "0", "1", "8", "/", "0", "7", "/", "0", "1", " ",
               "1", "7", ":", "3", "3", ":", "3", "1">>

ModifiedTime == DateTime(2019, 1, 5, 10, 30, 0)

JobRoots == (M :> DirNode) @@ (P :> DirNode) @@ (O :> DirNode)

DateCases ==
    { Scenario(<<M>>, <<P>>,
               JobRoots @@ (join(c[1], c[2]) :> FileNode(<<c[3]>>, ModifiedTime, c[4], 1))) :
        c \in {M, P} \X {ImgName, PlainName, VidOk, VidBad}
                     \X {"raster-image", "video", "audio"}
                     \X {NoExif, ZeroStamp, ExifColon, ExifHyphen, ExifSlash} }

\* A root of one policy inside a root of the other, a video in the inner one.
TreeInner == JobRoots @@ (SubDir :> DirNode) @@ (join(SubDir, VidOk) :> Video(1))

PolicyCases ==
    { Scenario(<<M>>, <<SubDir>>, TreeInner),
      Scenario(<<SubDir>>, <<M>>, TreeInner) }

\* Directories only, two levels deep.
SubSubDir == join(SubDir, <<"e">>)
TreeHollow == JobRoots @@ (SubDir :> DirNode) @@ (SubSubDir :> DirNode)

\* An empty directory beside one that holds a hidden file, and beside one
\* that holds a file no strategy recognizes.
Unrecognized == FileNode(<<>>, ModifiedTime, NoExif, 5)
TreeHeld(name, node) ==
    TreeHollow @@ (join(SubDir, <<"f">>) :> DirNode)
               @@ (join(join(SubDir, <<"f">>), name) :> node)

ReapCases ==
    { Scenario(<<M>>, <<P>>, TreeHollow),
      Scenario(<<P>>, <<M>>, TreeHollow),
      Scenario(<<M>>, <<P>>, TreeHeld(HiddenName, Video(4))),
      Scenario(<<M>>, <<P>>, TreeHeld(<<"x">>, Unrecognized)) }

\* Two files in a managed root, either of which may get replaced.
TreePair ==
    JobRoots @@ (join(M, VidOk) :> Video(1))
             @@ (join(M, PlainName) :> FileNode(<<"raster-image">>, ModifiedTime, NoExif, 2))

ReplaceCases == { Scenario(<<M>>, <<P>>, TreePair) }

JobCases == DateCases \cup PolicyCases \cup ReapCases \cup ReplaceCases

\* What an outside actor may drop into the watched trees.
Arrival(path, node) == [path |-> path, node |-> node]

Arrivals ==
    { Arrival(join(M, VidBad), Video(3)),
      Arrival(join(SubDir, HiddenName), Video(4)) }

\* --------------------------------------------------------------- scheduler

\* One entry of Scheduler._tasks.  enq and prev are history: when the entry was
\* appended and when the job it retries last ran (-1: it is no retry).
Task(args, delay, at, prev) ==
    [task |-> "run_entry", args |-> args, scheduled |-> at + delay, delay |-> delay,
     enq |-> at, prev |-> prev]

\* Equality of two entries as Python compares the dictionaries.
SameTask(a, b) ==
    /\ a.task = b.task
    /\ a.args = b.args
    /\ a.scheduled = b.scheduled
    /\ a.delay = b.delay

\* _add_delayed_task scheduling at the current time, the delay forgotten.
add_delayed_task_NoDelay(ts, args, delay, at, prev) ==
    Append(ts, [Task(args, delay, at, prev) EXCEPT !.scheduled = at])

\* _add_delayed_task putting the new entry first.
add_delayed_task_Prepend(ts, args, delay, at, prev) ==
    <<Task(args, delay, at, prev)>> \o ts

\* _add_delayed_task doubling the delay it is given.
add_delayed_task_Backoff(ts, args, delay, at, prev) ==
    Append(ts, Task(args, 2 * delay, at, prev))

\* Scheduler._add_delayed_task
add_delayed_task(ts, args, delay, at, prev) == Append(ts, Task(args, delay, at, prev))

\* list.remove(t): the first entry equal to t goes.
remove(ts, t) ==
    LET i == CHOOSE k \in 1..Len(ts) : SameTask(ts[k], t) /\ \A j \in 1..(k - 1) : ~SameTask(ts[j], t)
    IN  SubSeq(ts, 1, i - 1) \o SubSeq(ts, i + 1, Len(ts))

\* The test of run() for running a task at time at.
IsDue(t, at) == t.scheduled < at

Key(t) == [args |-> t.args, scheduled |-> t.scheduled, delay |-> t.delay]

\* What the clock may advance by between two readings of time.time() inside
\* run(): nothing measurable, or as long as one sleep of the main loop.
Elapsed == {0, SCHEDULER_TICK_TIME}

Later(at, d) == IF at + d > MaxTime THEN MaxTime ELSE at + d

\* schedule_entry for each path in turn: the tasks it appends.
RECURSIVE schedule_all(_, _, _, _, _, _)
schedule_all(ts, tree, paths, i, out_dir, at) ==
    IF i > Len(paths) THEN ts
    ELSE Bind(handler_factory(tree, paths[i]), LAMBDA handler :
            Bind(IF handler = "None" THEN ts
                 ELSE add_delayed_task(ts, <<paths[i], out_dir>>, HandlerDelay(handler), at, -1),
                 LAMBDA ts1 : schedule_all(ts1, tree, paths, i + 1, out_dir, at)))

NoJob ==
    [task |-> Task(<<<<>>, <<>>>>, 0, 0, -1), at |-> -1, outcome |-> "none",
     before |-> <<>>, after |-> <<>>, raced |-> FALSE]

NoTick == [due |-> {}, ran |-> {}, order |-> <<>>]

\* The state when main() has read its configuration and started the
\* notifier, for the configuration and tree of sc.
Start(sc) ==
    /\ fs = sc.tree
    /\ MANAGED_WATCH_DIRS = sc.managed
    /\ PASSIVE_WATCH_DIRS = sc.passive
    /\ OUT_DIR = O
    /\ now = 0
    /\ tasks = <<>>
    /\ lock = "free"
    /\ mainpc = "scan"
    /\ idx = 0
    /\ events = <<>>
    /\ npc = "idle"
    /\ nreq = <<>>
    /\ outside = 0
    /\ last = NoJob
    /\ tick = NoTick
    /\ scan = [log |-> <<>>, tree |-> <<>>]

Init == \E sc \in Scenarios : Start(sc)

JobInit == \E sc \in JobCases : Start(sc)

\* main(): full_scan(), before the loop.
FullScan ==
    /\ mainpc = "scan"
    /\ lock = "free"
    /\ \E paths \in {full_scan(fs, MANAGED_WATCH_DIRS, PASSIVE_WATCH_DIRS)} :
        /\ tasks' = schedule_all(tasks, fs, paths, 1, OUT_DIR, now)
        /\ scan' = [log |-> paths, tree |-> fs]
    /\ mainpc' = "run"
    /\ UNCHANGED <<fs, MANAGED_WATCH_DIRS, PASSIVE_WATCH_DIRS, OUT_DIR, now, lock, idx,
                   events, npc, nreq, outside, last, tick>>

\* Scheduler.run: self._lock.acquire() and the start of the iteration.
RunAcquire ==
    /\ mainpc = "run"
    /\ lock = "free"
    /\ lock' = "main"
    /\ idx' = 1
    /\ mainpc' = "loop"
    /\ tick' = [due |-> {Key(tasks[i]) : i \in {j \in 1..Len(tasks) : IsDue(tasks[j], now)}},
                ran |-> {}, order |-> <<>>]
    /\ UNCHANGED <<fs, MANAGED_WATCH_DIRS, PASSIVE_WATCH_DIRS, OUT_DIR, now, tasks,
                   events, npc, nreq, outside, last, scan>>

\* Scheduler.run: one pass of the loop body over the entry the iteration is
\* at.  at is the reading of time.time() that the test and the re-enqueue see.
RunStep ==
    /\ mainpc = "loop"
    /\ idx <= Len(tasks)
    /\ \E elapsed \in Elapsed, io_fails \in BOOLEAN, vanishes \in BOOLEAN :
        LET t == tasks[idx]
            at == Later(now, elapsed)
        IN  /\ now' = at
            /\ IF ~IsDue(t, at)
               THEN /\ ~io_fails
                    /\ ~vanishes
                    /\ idx' = idx + 1
                    /\ UNCHANGED <<fs, tasks, mainpc, last, tick, outside>>
               ELSE \E r \in {run_entry(fs, MANAGED_WATCH_DIRS, PASSIVE_WATCH_DIRS,
                                        t.args[1], t.args[2], io_fails, vanishes)} :
                    /\ vanishes =>
                        /\ ~io_fails
                        /\ outside < MaxOutside
                        /\ handler_factory(fs, t.args[1]) # "None"
                    /\ outside' = IF vanishes THEN outside + 1 ELSE outside
                    /\ fs' = r.fs
                    /\ last' = [task |-> t, at |-> at, outcome |-> r.outcome,
                                before |-> fs, after |-> r.fs, raced |-> vanishes]
                    /\ tick' = [tick EXCEPT !.ran = @ \cup {Key(t)}, !.order = Append(@, [task |-> t, at |-> at,
                                                               outcome |-> r.outcome])]
                    /\ IF r.outcome = "raise"
                       THEN /\ mainpc' = "crashed"
                            /\ UNCHANGED <<tasks, idx>>
                       ELSE /\ tasks' = IF r.outcome = "retry"
                                        THEN add_delayed_task(remove(tasks, t), t.args,
                                                              t.delay, at, at)
                                        ELSE remove(tasks, t)
                            /\ idx' = idx + 1
                            /\ UNCHANGED mainpc
    /\ UNCHANGED <<MANAGED_WATCH_DIRS, PASSIVE_WATCH_DIRS, OUT_DIR, lock, events, npc,
                   nreq, scan>>

\* Scheduler.run: the iteration is exhausted; self._lock.release().
RunRelease ==
    /\ mainpc = "loop"
    /\ idx > Len(tasks)
    /\ lock' = "free"
    /\ mainpc' = "sleep"
    /\ UNCHANGED <<fs, MANAGED_WATCH_DIRS, PASSIVE_WATCH_DIRS, OUT_DIR, now, tasks, idx,
                   events, npc, nreq, outside, last, tick, scan>>

\* main(): time.sleep(SCHEDULER_TICK_TIME)
Sleep ==
    /\ mainpc = "sleep"
    /\ now' = Later(now, SCHEDULER_TICK_TIME)
    /\ mainpc' = "run"
    /\ last' = NoJob
    /\ tick' = NoTick
    /\ UNCHANGED <<fs, MANAGED_WATCH_DIRS, PASSIVE_WATCH_DIRS, OUT_DIR, tasks, lock, idx,
                   events, npc, nreq, outside, scan>>

\* main(): an exception left run() and the loop; finally: notifier.stop(),
\* which joins the notification thread.
Finally ==
    /\ mainpc = "crashed"
    /\ npc = "idle"
    /\ npc' = "stopped"
    /\ mainpc' = "exited"
    /\ UNCHANGED <<fs, MANAGED_WATCH_DIRS, PASSIVE_WATCH_DIRS, OUT_DIR, now, tasks, lock,
                   idx, events, nreq, outside, last, tick, scan>>

\* inotify_trigger.process_default up to the call of the scheduler:
\* schedule_entry classifies the path.
ProcessDefault ==
    /\ npc = "idle"
    /\ events # <<>>
    /\ LET new_entry == Head(events)
           handler == handler_factory(fs, new_entry)
       IN  IF handler = "None"
           THEN UNCHANGED <<npc, nreq>>
           ELSE /\ npc' = "acquire"
                /\ nreq' = <<new_entry, HandlerDelay(handler)>>
    /\ events' = Tail(events)
    /\ UNCHANGED <<fs, MANAGED_WATCH_DIRS, PASSIVE_WATCH_DIRS, OUT_DIR, now, tasks, lock,
                   mainpc, idx, outside, last, tick, scan>>

\* add_task / add_delayed_task going on without waiting for the lock.
AddAcquire_NoLock ==
    /\ npc = "acquire"
    /\ lock' = "notify"
    /\ npc' = "locked"
    /\ UNCHANGED <<fs, MANAGED_WATCH_DIRS, PASSIVE_WATCH_DIRS, OUT_DIR, now, tasks,
                   mainpc, idx, events, nreq, outside, last, tick, scan>>

\* add_task / add_delayed_task: self._lock.acquire()
AddAcquire ==
    /\ npc = "acquire"
    /\ lock = "free"
    /\ lock' = "notify"
    /\ npc' = "locked"
    /\ UNCHANGED <<fs, MANAGED_WATCH_DIRS, PASSIVE_WATCH_DIRS, OUT_DIR, now, tasks,
                   mainpc, idx, events, nreq, outside, last, tick, scan>>

\* add_task / add_delayed_task: the append and self._lock.release()
AddRelease ==
    /\ npc = "locked"
    /\ tasks' = add_delayed_task(tasks, <<nreq[1], OUT_DIR>>, nreq[2], now, -1)
    /\ lock' = "free"
    /\ npc' = "idle"
    /\ nreq' = <<>>
    /\ UNCHANGED <<fs, MANAGED_WATCH_DIRS, PASSIVE_WATCH_DIRS, OUT_DIR, now, mainpc, idx,
                   events, outside, last, tick, scan>>

\* Whether p lies below a configured root.
UnderAny(roots, p) == \E i \in 1..Len(roots) : p # roots[i] /\ Within(roots[i], p)

Watched(p) == UnderAny(MANAGED_WATCH_DIRS, p) \/ UnderAny(PASSIVE_WATCH_DIRS, p)

\* An outside actor writes or moves a file into a watched directory; the
\* notification source reports it.
Arrive ==
    /\ outside < MaxOutside
    /\ \E a \in Arrivals :
        /\ ~exists(fs, a.path)
        /\ isdir(fs, dirname(a.path))
        /\ Watched(a.path)
        /\ fs' = Put(fs, a.path, a.node)
        /\ events' = Append(events, a.path)
    /\ outside' = outside + 1
    /\ UNCHANGED <<MANAGED_WATCH_DIRS, PASSIVE_WATCH_DIRS, OUT_DIR, now, tasks, lock,
                   mainpc, idx, npc, nreq, last, tick, scan>>

\* An outside actor deletes a file of a watched tree; no notification.
Remove ==
    /\ outside < MaxOutside
    /\ \E p \in DOMAIN fs :
        /\ isfile(fs, p)
        /\ Watched(p)
        /\ fs' = Del(fs, p)
    /\ outside' = outside + 1
    /\ UNCHANGED <<MANAGED_WATCH_DIRS, PASSIVE_WATCH_DIRS, OUT_DIR, now, tasks, lock,
                   mainpc, idx, events, npc, nreq, last, tick, scan>>

\* The files an outside actor may put a directory in the place of.
Replaceable == {join(M, VidOk), join(M, PlainName)}

\* An outside actor puts a directory that holds a hidden file where a file
\* of a watched tree was; no notification.
Replace ==
    /\ outside < MaxOutside
    /\ \E p \in Replaceable :
        /\ isfile(fs, p)
        /\ Watched(p)
        /\ fs' = Put(Put(Del(fs, p), p, DirNode), join(p, HiddenName), Video(4))
    /\ outside' = outside + 1
    /\ UNCHANGED <<MANAGED_WATCH_DIRS, PASSIVE_WATCH_DIRS, OUT_DIR, now, tasks, lock,
                   mainpc, idx, events, npc, nreq, last, tick, scan>>

Next ==
    \/ FullScan
    \/ RunAcquire
    \/ RunStep
    \/ RunRelease
    \/ Sleep
    \/ Finally
    \/ ProcessDefault
    \/ AddAcquire
    \/ AddRelease
    \/ Arrive
    \/ Remove

Spec == Init /\ [][Next]_vars

\* The main thread and the notification thread each keep running while they
\* can take a step.
MainThread == FullScan \/ RunAcquire \/ RunStep \/ RunRelease \/ Sleep \/ Finally
NotifyThread == ProcessDefault \/ AddAcquire \/ AddRelease

FairSpec == Spec /\ WF_vars(MainThread) /\ WF_vars(NotifyThread)

\* The main thread on each of the single-job cases, alone but for an outside
\* actor who may replace a file by a directory.
JobNext == MainThread \/ Replace

JobSpec == JobInit /\ [][JobNext]_vars

\* ------------------------------------------------------------------ claims

\* The latest job invocation: whether there is one, its path, the handler
\* run_entry chose for it, the policy, and where placement would put it.
Ran == last.outcome # "none"
\* The latest job ran with no outside actor removing its path meanwhile.
RanAlone == Ran /\ ~last.raced
LastPath == last.task.args[1]
LastHandler == handler_factory(last.before, LastPath)
LastDelete == should_delete(MANAGED_WATCH_DIRS, PASSIVE_WATCH_DIRS, LastPath)
LastIsMedia == RanAlone /\ LastHandler \in {"Image", "Video", "Audio"}
LastDate == get_date(LastHandler, last.before, LastPath)
LastOutPath == join(OutDirOf(last.task.args[2], LastDate), basename(LastPath))

\* C1: a job is never invoked before the time its task was enqueued plus the
\* task's delay, and a retried task never runs sooner than its delay after the
\* run it retries.
C1_NoEarlyExecution ==
    Ran =>
        /\ last.at >= last.task.enq + last.task.delay
        /\ last.task.prev >= 0 => last.at - last.task.prev >= last.task.delay

\* A directory task that was re-enqueued runs again.
C1_Witness ==
    /\ Ran
    /\ last.task.delay = DIR_RUN_DELAY
    /\ last.task.prev >= 0

\* C2: when a tick returns, every task that was pending and overdue when the
\* tick started has had its job invoked during the tick.
C2_TickRunsAllDue == mainpc = "sleep" => tick.due \subseteq tick.ran

\* C3: after a job raised, the scheduler lock is not left held and the main
\* loop is still running.
C3_FailureIsolation ==
    (Ran /\ last.outcome = "raise") =>
        /\ lock # "main"
        /\ mainpc \notin {"crashed", "exited"}

\* The paths tasks are made for.
TaskPaths ==
    { SubDir, join(SubDir, VidOk), join(M, VidOk), join(M, VidBad),
      join(P, VidOk), join(MP, VidOk) }

Pending(p) == \E i \in 1..Len(tasks) : tasks[i].args[1] = p /\ tasks[i].scheduled < MaxTime
Invoked(p) == Ran /\ LastPath = p

\* C4: with both threads running and the clock advancing, every task that is
\* pending has its job invoked eventually.
C4_EveryTaskRuns == \A p \in TaskPaths : Pending(p) ~> Invoked(p)

RECURSIVE Count(_, _, _)
Count(seq, x, i) ==
    IF i > Len(seq) THEN 0
    ELSE (IF seq[i] = x THEN 1 ELSE 0) + Count(seq, x, i + 1)

\* C5: the full scan submits each handled path below a root exactly once.
C5_ScanSubmitsOnce ==
    mainpc # "scan" =>
        \A p \in DOMAIN scan.tree :
            (Watched(p) /\ handler_factory(scan.tree, p) # "None")
                => Count(scan.log, p, 1) = 1

\* C6 as stated: once the task of a media file under a managed root reported
\* done, the source is gone and a file of its name is in the bucket of its date.
C6_ManagedEndState ==
    (LastIsMedia /\ UnderAny(MANAGED_WATCH_DIRS, LastPath) /\ last.outcome = "done") =>
        /\ ~exists(last.after, LastPath)
        /\ isfile(last.after, LastOutPath)

\* C6, amended: once the task of a media file under a managed root reported
\* done, a bucket that held no entry of that name now holds the file and the
\* source is gone; a bucket that already held a file of that name is unchanged
\* and the source is left in place.
C6_ManagedEndStateUnlessTaken ==
    (LastIsMedia /\ UnderAny(MANAGED_WATCH_DIRS, LastPath) /\ last.outcome = "done") =>
        /\ ~exists(last.before, LastOutPath) =>
            /\ ~exists(last.after, LastPath)
            /\ isfile(last.after, LastOutPath)
            /\ last.after[LastOutPath] = last.before[LastPath]
        /\ isfile(last.before, LastOutPath) =>
            /\ exists(last.after, LastPath)
            /\ last.after = last.before

\* A managed video was moved into a bucket that did not hold its name.
C6_Witness ==
    /\ LastIsMedia
    /\ UnderAny(MANAGED_WATCH_DIRS, LastPath)
    /\ last.outcome = "done"
    /\ ~exists(last.before, LastOutPath)
    /\ ~exists(last.after, LastPath)

\* C7: no job removes or changes an entry below a passive root.
C7_PassiveUntouched ==
    Ran =>
        \A p \in DOMAIN last.before :
            UnderAny(PASSIVE_WATCH_DIRS, p) =>
                /\ exists(last.after, p)
                /\ last.after[p] = last.before[p]

\* C8: a media handler that finds a file of the source's name in the bucket
\* reports done, raises nothing and changes nothing.
C8_PlacementIdempotent ==
    (LastIsMedia /\ LastDate.tag = "date" /\ isfile(last.before, LastOutPath)) =>
        /\ last.outcome = "done"
        /\ last.after = last.before

\* A media job ran while its name was taken in the bucket.
C8_Witness ==
    /\ LastIsMedia
    /\ LastDate.tag = "date"
    /\ isfile(last.before, LastOutPath)
    /\ last.outcome = "done"

\* C9: under a managed policy, the job of a directory that holds only files
\* reports false and leaves everything in place while a file remains; once
\* none remains it removes the directory, and only it, and reports done; the
\* job of a directory that is already gone reports done.
C9_ReapOnlyWhenEmpty ==
    /\ (RanAlone /\ LastHandler = "Directory" /\ LastDelete
            /\ \A q \in listdir(last.before, LastPath) : isfile(last.before, q)) =>
        /\ listdir(last.before, LastPath) # {} =>
            /\ last.outcome = "retry"
            /\ last.after = last.before
        /\ listdir(last.before, LastPath) = {} =>
            /\ last.outcome = "done"
            /\ last.after = Del(last.before, LastPath)
    /\ (Ran /\ last.task.delay = DIR_RUN_DELAY /\ ~exists(last.before, LastPath)) =>
        /\ last.outcome = "done"
        /\ last.after = last.before

\* A managed directory that was retried while it held a file is removed once
\* the file is gone.
C9_Witness ==
    /\ Ran
    /\ LastHandler = "Directory"
    /\ LastDelete
    /\ last.task.prev >= 0
    /\ last.outcome = "done"
    /\ ~exists(last.after, LastPath)

\* The paths the classifier is asked about.
KnownPaths ==
    (DOMAIN fs) \cup {a.path : a \in Arrivals} \cup TaskPaths \cup {join(P, HiddenName)}

NameDate(name) ==
    IF name = ImgName THEN Date(2020, 4, 1)
    ELSE IF name = VidOk THEN Date(2016, 4, 28)
    ELSE NoDate

\* What the metadata strings of the single-job cases say.
ExifStamp(exif) ==
    IF exif \in {ExifColon, ExifHyphen} THEN DateTime(2018, 7, 1, 17, 33, 31) ELSE NoDate

\* The bucket names of the dates of the single-job cases.
BucketName(date) ==
    CASE date.year = 2018 -> <<"2", "0", "1", "8", "-", "0", "7">>
      [] date.year = 2020 -> <<"2", "0", "2", "0", "-", "0", "4">>
      [] date.year = 2016 -> <<"2", "0", "1", "6", "-", "0", "4">>
      [] OTHER -> <<"2", "0", "1", "9", "-", "0", "1">>

LastNode == last.before[LastPath]
LastName == basename(LastPath)

\* The date the precedence rules give the file of the latest job.
PrecedenceDate ==
    IF LastHandler = "Image" /\ ExifStamp(LastNode.exif).tag = "date"
    THEN ExifStamp(LastNode.exif)
    ELSE IF NameDate(LastName).tag = "date" THEN NameDate(LastName)
    ELSE LastNode.mtime

JobInvoked == Len(tick'.order) = Len(tick.order) + 1
InvokedTask == tick'.order[Len(tick'.order)].task

\* Whether the list after is the list before without one entry equal to t.
WithoutOne(before, after, t) ==
    \E i \in 1..Len(before) :
        /\ SameTask(before[i], t)
        /\ after = SubSeq(before, 1, i - 1) \o SubSeq(before, i + 1, Len(before))

\* C12: a step of run() that executes a task removes it from the pending
\* list; when the job returned true nothing is added; when it returned false
\* exactly one task is appended, with the same job, arguments and delay,
\* scheduled at the current time plus that delay.
C12_RetrySemantics ==
    [][(JobInvoked /\ last'.outcome \in {"done", "retry"}) =>
        /\ last'.outcome = "done" => WithoutOne(tasks, tasks', InvokedTask)
        /\ last'.outcome = "retry" =>
            /\ Len(tasks') = Len(tasks)
            /\ WithoutOne(tasks, SubSeq(tasks', 1, Len(tasks') - 1), InvokedTask)
            /\ tasks'[Len(tasks')].task = InvokedTask.task
            /\ tasks'[Len(tasks')].args = InvokedTask.args
            /\ tasks'[Len(tasks')].delay = InvokedTask.delay
            /\ tasks'[Len(tasks')].scheduled = now' + InvokedTask.delay]_vars

\* A task that is itself a retry was retried, with other tasks pending.
C12_Witness ==
    /\ Ran
    /\ last.outcome = "retry"
    /\ last.task.prev >= 0
    /\ Len(tasks) > 1
    /\ tasks[Len(tasks)].delay = DIR_RUN_DELAY
    /\ tasks[Len(tasks)].scheduled = last.at + DIR_RUN_DELAY

\* C13: when a job has raised, its task is no longer pending, the other
\* pending tasks are as they were, and the lock is free.
C13_RaiseLeavesSchedulerClean ==
    [][(JobInvoked /\ last'.outcome = "raise") =>
        /\ WithoutOne(tasks, tasks', InvokedTask)
        /\ lock' = "free"]_vars

\* Whether the j-th job of the current tick ran the task that the i-th job of
\* the tick re-enqueued when it returned false.
RetryOf(i, j) ==
    /\ tick.order[i].outcome = "retry"
    /\ tick.order[j].task.args = tick.order[i].task.args
    /\ tick.order[j].task.delay = tick.order[i].task.delay
    /\ tick.order[j].task.enq = tick.order[i].at
    /\ tick.order[j].task.prev = tick.order[i].at

\* C14: a task that a run() call re-enqueued because its job returned false
\* is not executed again within that run() call.
C14_RetriedRunsInLaterTick ==
    \A i, j \in 1..Len(tick.order) : i < j => ~RetryOf(i, j)

\* C15: the jobs of one run() call are invoked in the order in which their
\* tasks were enqueued: of two tasks executed in the same tick, the one
\* enqueued earlier is invoked first; the pending list itself is in enqueue
\* order.
C15_EnqueueOrder ==
    /\ \A i, j \in 1..Len(tick.order) :
            i < j => tick.order[i].task.enq <= tick.order[j].task.enq
    /\ \A i, j \in 1..Len(tasks) : i < j => tasks[i].enq <= tasks[j].enq

\* One tick ran two different tasks that were enqueued at different times.
C15_Witness ==
    /\ Len(tick.order) >= 2
    /\ tick.order[1].task.enq < tick.order[2].task.enq
    /\ tick.order[1].task.args # tick.order[2].task.args

\* The main thread is inside run(), between acquire and release; the
\* notification thread is inside add_task or add_delayed_task likewise.
InRun == mainpc = "loop"
InAdd == npc = "locked"

\* The two critical sections exclude each other, and whoever is in one
\* holds the lock.
Exclusion ==
    /\ ~(InRun /\ InAdd)
    /\ InRun => lock = "main"
    /\ InAdd => lock = "notify"

\* The pending list changes only in a critical section (the add_task calls of
\* the full scan take and release the lock within the scan's step); a
\* submission that finds a tick in progress waits unchanged, and when it is
\* made the list gains exactly its entry at the end.
GuardedAccess ==
    /\ tasks' # tasks => (InRun \/ InAdd \/ (mainpc = "scan" /\ lock = "free"))
    /\ (npc = "acquire" /\ lock # "free") =>
        /\ npc' = "acquire"
        /\ nreq' = nreq
    /\ (InRun /\ npc \in {"acquire", "locked"}) => ~(npc' = "idle")
    /\ (InAdd /\ npc' = "idle") =>
        /\ ~InRun
        /\ Len(tasks') = Len(tasks) + 1
        /\ SubSeq(tasks', 1, Len(tasks)) = tasks
        /\ tasks'[Len(tasks')].args = <<nreq[1], OUT_DIR>>
        /\ tasks'[Len(tasks')].delay = nreq[2]

\* C16: add_task/add_delayed_task of the notification thread and run() of
\* the main thread are never in their critical sections together, the
\* pending list is read and written only under the lock, and a submission
\* made during a tick is appended after the tick, not lost.
C16_MutualExclusion == []Exclusion /\ [][GuardedAccess]_vars

\* A submission waits for the lock while a tick that has run a job holds it.
C16_Witness ==
    /\ InRun
    /\ npc = "acquire"
    /\ lock = "main"
    /\ Len(tick.order) >= 1

\* The configured roots that contain p as a directory ancestor (or are p).
RootsOver(roots, p) == {i \in 1..Len(roots) : Within(roots[i], p)}

\* The longest root among those of the sequence roots that contain p, as its
\* length; 0 when none does.
Deepest(roots, p) ==
    IF RootsOver(roots, p) = {} THEN 0
    ELSE Len(roots[CHOOSE i \in RootsOver(roots, p) :
                    \A j \in RootsOver(roots, p) : Len(roots[j]) <= Len(roots[i])])

\* The policy of the longest configured root containing p: TRUE to delete.
LongestRootPolicy(p) ==
    Deepest(MANAGED_WATCH_DIRS, p) > Deepest(PASSIVE_WATCH_DIRS, p)

\* C17: the policy of the path of a job is that of the longest configured
\* root containing it (the inner root's when roots are nested), do not
\* delete when no root contains it; a media job under the passive policy
\* leaves its source in place.
C17_LongestRootPolicy ==
    RanAlone =>
        /\ LastDelete = LongestRootPolicy(LastPath)
        /\ (LastIsMedia /\ ~LongestRootPolicy(LastPath)) => exists(last.after, LastPath)

\* C18: when an outside actor has removed the path of a task before its job
\* is over, be it before the job starts or between the can_handle that accepts
\* the path and the construction of the handler, the job reports done, raises
\* nothing and itself changes nothing in the file system.
C18_DeletionRace ==
    (Ran /\ (last.raced \/ ~exists(last.before, LastPath))) =>
        /\ last.outcome = "done"
        /\ last.after = DelTree(last.before, LastPath)

\* The paths of fs in the tree rooted at d.
Subtree(tree, d) == {q \in DOMAIN tree : Within(d, q)}

\* C19: a directory job removes only directories, only inside the tree rooted
\* at its own path, only under the managed policy and only ones that hold
\* nothing when they go (so none with a file anywhere below, hidden and
\* unrecognized files included); it changes nothing else; a tree made of
\* directories only is gone after one execution, which reports done.
C19_ReapFrame ==
    (RanAlone /\ LastHandler = "Directory") =>
        /\ \A p \in (DOMAIN last.before) \ (DOMAIN last.after) :
            /\ LastDelete
            /\ Within(LastPath, p)
            /\ \A q \in Subtree(last.before, p) : isdir(last.before, q)
            /\ Subtree(last.after, p) = {}
        /\ \A p \in DOMAIN last.after :
            /\ exists(last.before, p)
            /\ last.after[p] = last.before[p]
        /\ (LastDelete /\ \A q \in Subtree(last.before, LastPath) : isdir(last.before, q)) =>
            /\ Subtree(last.after, LastPath) = {}
            /\ last.outcome = "done"

\* One execution removed a directory and the empty directory inside it.
C19_Witness ==
    /\ RanAlone
    /\ LastPath = SubDir
    /\ isdir(last.before, SubSubDir)
    /\ ~exists(last.after, SubSubDir)
    /\ ~exists(last.after, SubDir)
    /\ last.outcome = "done"

\* One execution removed an empty directory and left its sibling, which holds
\* a file, and their parent.
C19_Partial ==
    /\ RanAlone
    /\ LastPath = SubDir
    /\ ~exists(last.after, SubSubDir)
    /\ exists(last.after, join(SubDir, <<"f">>))
    /\ last.outcome = "retry"

\* Every pass of the loop of run() that goes on to another pass leaves fewer
\* entries between the position of the iteration and the end of the list:
\* the list never grows (a retry removes one entry and appends one) and the
\* position moves on by one.
TickPassesDecrease ==
    [][(InRun /\ InRun' /\ (idx' # idx \/ tasks' # tasks)) =>
            Len(tasks') - idx' < Len(tasks) - idx]_vars

\* C20: every run() call ends and releases the lock, whatever the pending
\* list and whatever the outcomes of the jobs: whenever the main thread holds
\* the lock, the lock is free again later.
C20_TickReturns == (lock = "main") ~> (lock = "free")

====
